---- MODULE Spec2Model ----
(***************************************************************************)
(* ReverDNS: the concurrent reverse-DNS resolution engine.                 *)
(*                                                                         *)
(*   src/src/dns/resolver.rs   DnsResolver::new, with_resolvers, lookup    *)
(*   src/src/main.rs           main, run, read_ips_from_file               *)
(*   src/src/cli/args.rs       Args::validate                              *)
(*   src/src/error.rs          ReverDNSError::exit_code, is_retryable      *)
(*   src/src/output/json.rs    format_json                                 *)
(*                                                                         *)
(* run() drives every lookup future from one task (buffer_unordered), so   *)
(* the code between two awaits of a future is one atomic step.  Each       *)
(* action below is one such step.  Time is discrete: a Tick is             *)
(* 1/TicksPerSec second, a tokio timer is a countdown that Tick lowers and *)
(* a sleeping future resumes no earlier than its countdown reaches 0.      *)
(*                                                                         *)
(* Strings are sequences of words; an IP string is the sequence of its     *)
(* dot-separated fields (-1 for a field that is not a decimal number).      *)
(* Option values are sequences of length 0 (None) or 1 (Some).             *)
(*                                                                         *)
(* Spec and LookupSpec start where run's dispatch loop starts; StartSpec   *)
(* starts at main; FnSpec applies the library functions on their own.      *)
(***************************************************************************)
EXTENDS Integers, Sequences, FiniteSets, TLC

\* ------------------------------------------------------------- bounds
MaxIps == 2
MaxConcurrency == 2
MaxRetry == 2
TicksPerSec == 2
MaxLines == 2
MaxResolvers == 2
MaxResults == 3

\* ------------------------------------------------------------- values
None == << >>
Some(x) == << x >>
IsSome(o) == Len(o) = 1
IsNone(o) == Len(o) = 0
Unwrap(o) == o[1]
UnwrapOr(o, d) == IF IsSome(o) THEN o[1] ELSE d

Min(a, b) == IF a <= b THEN a ELSE b

\* the input strings a run may be given: "8.8.8.8", "1.1.1.1", "not-an-ip"
\* (one field, -1: not a decimal number) and "256.1.1.1"
IpStrings == { <<8, 8, 8, 8>>, <<1, 1, 1, 1>>, << -1 >>, <<256, 1, 1, 1>> }

\* a parser that forgets the range of a field
IpAddrFromStrNoRange(ip) == Len(ip) = 4 /\ \A k \in 1..Len(ip) : ip[k] >= 0

\* IpAddr::from_str(ip).is_ok(), IPv4: four decimal fields, each 0..=255
IpAddrFromStrOk(ip) == Len(ip) = 4 /\ \A k \in 1..Len(ip) : ip[k] \in 0..255

\* str::contains(pat) on a text of words
Contains(text, pat) == \E k \in 1..Len(text) : text[k] = pat

\* e.to_string() of the errors the underlying resolver may return
ErrorTexts ==
    { <<"connection", "refused">>,
      <<"NXDOMAIN">>,
      <<"io", "Timeout">>,
      <<"NoRecordsFound", "Timeout">> }

\* the hostnames a successful reverse_lookup may carry (PTR names end in ".")
Replies == { << >>, << <<"dns", "google", ".">> >> }

\* the text lookup records for an attempt that exceeded the timeout
TimeoutText == <<"Timeout">>
\* the fallback text of lookup
UnknownErrorText == <<"Unknown", "error">>

\* h.trim_end_matches('.')
RECURSIVE TrimEndDots(_)
TrimEndDots(h) ==
    IF Len(h) > 0 /\ h[Len(h)] = "." THEN TrimEndDots(SubSeq(h, 1, Len(h) - 1)) ELSE h

\* lookup_result.iter().next().map(to_utf8).map(trim)
FirstHostname(reply) == IF Len(reply) = 0 THEN None ELSE Some(TrimEndDots(reply[1]))

\* Duration::from_secs, Duration::from_millis, Duration::from_secs_f64(1.0 / r),
\* Duration::from_micros, in ticks
DurationFromSecs(s) == s * TicksPerSec
DurationFromMillis(ms) == (ms * TicksPerSec) \div 1000
DurationFromMicros(us) == (us * TicksPerSec) \div 1000000
DurationFromRate(r) == TicksPerSec \div r

\* Duration::as_millis
DurationAsMillis(d) == (d * 1000) \div TicksPerSec

\* ------------------------------------------------------------- state
VARIABLES
    args,        \* the validated command line: ips, concurrency, rate_limit, ...
    resolver,    \* the DnsResolver handle (immutable after construction)
    runPc,       \* where the process is: "main", "run", "construct", "dispatch", "done", "exit"
    next,        \* index of the next ip stream::iter(ips) yields
    task,        \* per input ip: the state of its lookup future
    collected,   \* the Vec<Result<LookupResult>> collect() builds, in completion order
    results,     \* the Vec<LookupResult> after filter_map
    pb,          \* the progress bar's position
    logged,      \* number of "Unexpected error type in stream" lines logged
    since,       \* ticks since the previous call of resolver.lookup (saturating)
    minGap,      \* the smallest such distance seen at a call (saturating)
    proc,        \* the process: the input file on disk, what main and run have done so far
    call         \* a library function applied on its own: name, argument, return value

vars == << args, resolver, runPc, next, task, collected, results, pb, logged, since, minGap,
           proc, call >>

\* NameServerConfig { socket_addr, protocol, tls_dns_name, .. }
NameServer(addr, port, protocol, tls_dns_name) ==
    [ addr |-> addr, port |-> port, protocol |-> protocol, tls_dns_name |-> tls_dns_name ]

\* DnsResolver::new; base is the ResolverConfig the name servers are added to
DnsResolverNew(timeout_secs, retry_count, retry_backoff_ms) ==
    [ timeout        |-> DurationFromSecs(timeout_secs),
      retry_count    |-> retry_count,
      retry_backoff  |-> DurationFromMillis(retry_backoff_ms),
      resolver_names |-> <<"default(8.8.8.8,1.1.1.1)">>,
      base           |-> "ResolverConfig::default",
      servers        |-> << NameServer(<<8, 8, 8, 8>>, 53, "Udp", None),
                            NameServer(<<1, 1, 1, 1>>, 53, "Udp", None) >> ]

\* the interval with its condition inverted: always "practically no limit"
RateLimitIntervalNoLimit(rate_limit) == DurationFromMicros(1)

\* main.rs: the rate limit interval
RateLimitInterval(rate_limit) ==
    IF rate_limit > 0 THEN DurationFromRate(rate_limit) ELSE DurationFromMicros(1)

rate_limit_interval == RateLimitInterval(args.rate_limit)

\* The future of one input ip.  pc, timer, attempt, last_error and out are the
\* future's own state; the rest records what it has done so far: waited (ticks
\* of rate limit sleep, saturating), calls (calls of the underlying resolver),
\* sleeps and slept (backoff sleeps and the total of their durations), backed
\* (ticks that passed during the latest backoff sleep, saturating), retryable
\* (attempts that ended in a timeout or in an error without a hard-failure marker),
\* kind (how the latest attempt ended) and said (the description of the latest
\* attempt that did not succeed).  elapsed is start.elapsed(): the ticks since
\* lookup was called (saturating), where the clock is observed; timeouts counts,
\* there too, the attempts that exceeded the timeout.
QueuedTask ==
    [ pc |-> "queued", timer |-> 0, waited |-> 0, attempt |-> 0,
      last_error |-> None, out |-> None,
      calls |-> 0, sleeps |-> 0, slept |-> 0, backed |-> 0, retryable |-> 0,
      kind |-> "none", said |-> None, elapsed |-> 0, timeouts |-> 0 ]

RECURSIVE SeqsUpTo(_, _)
SeqsUpTo(S, n) ==
    IF n = 0 THEN { << >> }
    ELSE LET shorter == SeqsUpTo(S, n - 1)
         IN  shorter \cup { Append(s, x) : s \in { q \in shorter : Len(q) = n - 1 }, x \in S }

\* the command lines of a run with the default resolver and no input file
ArgsOver(ipLists, concurrencies) ==
    [ ips            : ipLists,
      input          : { None },
      resolver       : { << >> },
      dns_over_https : { FALSE },
      doh_provider   : { None },
      concurrency    : concurrencies,
      rate_limit     : {1, 2},
      timeout        : {1},
      retry_count    : 0..MaxRetry,
      retry_backoff  : {0, 500} ]

\* a whole run: up to MaxIps inputs, up to MaxConcurrency lookups at a time
ArgsSet == ArgsOver(SeqsUpTo(IpStrings, MaxIps) \ { << >> }, 1..MaxConcurrency)

\* a run of one lookup, with up to one retry more than in a whole run
LookupArgsSet ==
    { [ a EXCEPT !.retry_count = n ] :
        a \in ArgsOver({ << ip >> : ip \in IpStrings }, {1}), n \in 0..(MaxRetry + 1) }

\* the claims' interval: 1 / R seconds
Delta == DurationFromRate(args.rate_limit)

\* the claims' backoff base
BackoffBase == DurationFromMillis(args.retry_backoff)

\* no library function is applied on its own
NoCall == [ fn |-> "none", arg |-> None, ret |-> None ]

\* the process at its start: its input file (None: the path does not exist),
\* whether validate returned Ok, what read_ips_from_file returned, whether a resolver
\* was constructed, the error main received and the exit code it exited with.
\* timed says whether the clock behind Instant::now() is observed: where it is
\* not, every latency reads 0.
ProcAtStart(file) ==
    [ file |-> file, validated |-> FALSE, read |-> None, built |-> FALSE,
      err |-> None, exit |-> None, timed |-> FALSE ]

\* the process when run's dispatch loop starts
ProcAtDispatch == [ ProcAtStart(None) EXCEPT !.validated = TRUE, !.built = TRUE ]

\* the process when run's dispatch loop starts, its clock observed
ProcTimed == [ ProcAtDispatch EXCEPT !.timed = TRUE ]

\* the dispatch loop starts, the process being p
InitFrom(argsSet, p) ==
    /\ args \in argsSet
    /\ proc = p
    /\ call = NoCall
    /\ resolver = DnsResolverNew(args.timeout, args.retry_count, args.retry_backoff)
    /\ runPc = "dispatch"
    /\ next = 1
    /\ task = [ i \in 1..Len(args.ips) |-> QueuedTask ]
    /\ collected = << >>
    /\ results = << >>
    /\ pb = 0
    /\ logged = 0
    /\ since = Delta
    /\ minGap = Delta

InitWith(argsSet) == InitFrom(argsSet, ProcAtDispatch)

Init == InitWith(ArgsSet)

\* one lookup, its latency observed
LookupInit == InitFrom(LookupArgsSet, ProcTimed)

\* ------------------------------------------------------------- dispatch
Tasks == DOMAIN task

InFlightPcs == { "rate_sleep", "attempting", "backoff" }
InFlight == { i \in Tasks : task[i].pc \in InFlightPcs }

\* a bound that is off by one
CanPullOffByOne(len, max) == len <= max

\* BufferUnordered::poll_next: while in_progress_queue.len() < max, take the next future
CanPull(len, max) == len < max

PullEnabled ==
    /\ runPc = "dispatch"
    /\ next <= Len(args.ips)
    /\ CanPull(Cardinality(InFlight), args.concurrency)

\* the stream yields ip number i; its future is polled up to the rate limit sleep
Pull(i) ==
    /\ PullEnabled
    /\ i = next
    /\ next' = next + 1
    /\ task' = [ task EXCEPT ![i] =
                    [ @ EXCEPT !.pc = "rate_sleep", !.timer = rate_limit_interval ] ]
    /\ UNCHANGED << proc, call, args, resolver, runPc, collected, results, pb, logged, since, minGap >>

\* an increment that counts the returned results alone
CompleteCountingOk(i, t, r) ==
    /\ task' = [ task EXCEPT ![i] = [ t EXCEPT !.pc = "done", !.timer = 0, !.out = Some(r) ] ]
    /\ pb' = pb + (IF r.ok THEN 1 ELSE 0)
    /\ collected' = Append(collected, r)

\* the future of ip i returns r: pb.inc(1), and collect() pushes r
Complete(i, t, r) ==
    /\ task' = [ task EXCEPT ![i] = [ t EXCEPT !.pc = "done", !.timer = 0, !.out = Some(r) ] ]
    /\ pb' = pb + 1
    /\ collected' = Append(collected, r)

OkResult(res) == [ ok |-> TRUE, val |-> res ]
ErrResult(e) == [ ok |-> FALSE, err |-> e ]

\* ------------------------------------------------------------- DnsResolver::lookup
\* the range without its upper end: 0..self.retry_count
AttemptRangeExclusive(retry_count) == 0..(retry_count - 1)

\* the range with one index too many: 0..=self.retry_count + 1
AttemptRangeOneMore(retry_count) == 0..(retry_count + 1)

\* for attempt in 0..=self.retry_count
AttemptRange(retry_count) == 0..retry_count

\* err_str.contains("NXDOMAIN") || err_str.contains("NoRecordsFound")
IsHardFailure(err_str) == Contains(err_str, "NXDOMAIN") \/ Contains(err_str, "NoRecordsFound")

\* a status that reports timeouts as rate limiting
StatusOfRateLimited(error_msg) ==
    IF Contains(error_msg, "Timeout") THEN "RateLimited" ELSE "Failed"

\* the status of a lookup that ends without success
StatusOf(error_msg) == IF Contains(error_msg, "Timeout") THEN "Timeout" ELSE "Failed"

\* a latency taken from the start of the latest attempt
LatencyOfAttempt(t) == DurationAsMillis(resolver.timeout - t.timer)

\* start.elapsed().as_millis(), t being the future's state
Latency(t) == DurationAsMillis(t.elapsed)

\* the longest a lookup takes when every sleep and timeout ends on time: the
\* stopwatch of a lookup saturates here
LatencyCap ==
    resolver.retry_backoff * ((resolver.retry_count * (resolver.retry_count + 1)) \div 2)
        + (resolver.retry_count + 1) * resolver.timeout

SuccessResult(ip, reply, latency_ms) ==
    [ ip |-> ip, hostname |-> FirstHostname(reply), status |-> "Success", ttl |-> None,
      latency_ms |-> latency_ms, resolver |-> resolver.resolver_names, error |-> None ]

FailureResult(ip, last_error, latency_ms) ==
    LET error_msg == UnwrapOr(last_error, UnknownErrorText)
    IN  [ ip |-> ip, hostname |-> None, status |-> StatusOf(error_msg), ttl |-> None,
          latency_ms |-> latency_ms, resolver |-> resolver.resolver_names,
          error |-> Some(error_msg) ]

\* a lookup that reports its exhausted retries as an error
LookupFailureErr(ip, last_error, latency_ms) ==
    ErrResult([ kind |-> "RetryLimitExceeded", arg |-> ip ])

\* what lookup returns when the loop ends without success
LookupFailure(ip, last_error, latency_ms) ==
    OkResult(FailureResult(ip, last_error, latency_ms))

\* the texts without a hard-failure marker
MarkerFree(text) == \A k \in 1..Len(text) : text[k] \notin { "NXDOMAIN", "NoRecordsFound" }

\* a backoff that doubles: base, 2 base, 4 base, ..
BackoffDurationExponential(retry_backoff, attempt) == retry_backoff * 2 ^ (attempt - 1)

\* the backoff before attempt n > 0: self.retry_backoff * attempt
BackoffDuration(retry_backoff, attempt) == retry_backoff * attempt

\* the loop head for attempt n, t being the future's state on arrival
LoopHead(i, t, n) ==
    IF n \in AttemptRange(resolver.retry_count)
    THEN /\ IF n > 0
            THEN task' = [ task EXCEPT ![i] =
                            [ t EXCEPT !.pc = "backoff", !.attempt = n,
                                       !.timer = BackoffDuration(resolver.retry_backoff, n),
                                       !.sleeps = @ + 1, !.backed = 0,
                                       !.slept = @ + BackoffDuration(resolver.retry_backoff, n) ] ]
            ELSE task' = [ task EXCEPT ![i] =
                            [ t EXCEPT !.pc = "attempting", !.attempt = n,
                                       !.timer = resolver.timeout, !.calls = @ + 1 ] ]
         /\ UNCHANGED << pb, collected >>
    ELSE Complete(i, t, LookupFailure(args.ips[i], t.last_error, Latency(t)))

\* the rate limit sleep of ip i is over: resolver.lookup(&ip) is called
Submit(i) ==
    /\ runPc = "dispatch"
    /\ ~PullEnabled
    /\ task[i].pc = "rate_sleep"
    /\ task[i].timer = 0
    /\ minGap' = Min(minGap, since)
    /\ since' = 0
    /\ IF IpAddrFromStrOk(args.ips[i])
       THEN LoopHead(i, task[i], 0)
       ELSE Complete(i, task[i], ErrResult([ kind |-> "InvalidIpAddress", arg |-> args.ips[i] ]))
    /\ UNCHANGED << proc, call, args, resolver, runPc, next, results, logged >>

\* the backoff sleep before attempt n is over: the attempt is issued
BackoffDone(i) ==
    /\ runPc = "dispatch"
    /\ ~PullEnabled
    /\ task[i].pc = "backoff"
    /\ task[i].timer = 0
    /\ task' = [ task EXCEPT ![i] =
                    [ @ EXCEPT !.pc = "attempting", !.timer = resolver.timeout,
                               !.calls = @ + 1 ] ]
    /\ UNCHANGED << proc, call, args, resolver, runPc, next, collected, results, pb, logged, since, minGap >>

\* an error slot that keeps the first error it is given
RecordFirstError(last_error, text) == IF IsSome(last_error) THEN last_error ELSE Some(text)

\* last_error = Some(text)
RecordError(last_error, text) == Some(text)

\* a success that reports the error of the attempts before it
AttemptOkKeepsError(i, reply) ==
    /\ runPc = "dispatch"
    /\ ~PullEnabled
    /\ task[i].pc = "attempting"
    /\ Complete(i, [ task[i] EXCEPT !.kind = "ok" ],
                OkResult([ SuccessResult(args.ips[i], reply, Latency(task[i])) EXCEPT
                             !.error = task[i].last_error ]))
    /\ UNCHANGED << proc, call, args, resolver, runPc, next, results, logged, since, minGap >>

\* Ok(Ok(lookup_result))
AttemptOk(i, reply) ==
    /\ runPc = "dispatch"
    /\ ~PullEnabled
    /\ task[i].pc = "attempting"
    /\ Complete(i, [ task[i] EXCEPT !.kind = "ok" ],
                OkResult(SuccessResult(args.ips[i], reply, Latency(task[i]))))
    /\ UNCHANGED << proc, call, args, resolver, runPc, next, results, logged, since, minGap >>

\* Ok(Err(e))
AttemptErr(i, err_str) ==
    /\ runPc = "dispatch"
    /\ ~PullEnabled
    /\ task[i].pc = "attempting"
    /\ LET t == [ task[i] EXCEPT !.last_error = RecordError(@, err_str), !.kind = "error",
                                 !.said = Some(err_str),
                                 !.retryable = IF MarkerFree(err_str) THEN @ + 1 ELSE @ ]
       IN  IF IsHardFailure(err_str)
           THEN Complete(i, t, LookupFailure(args.ips[i], t.last_error, Latency(t)))
           ELSE LoopHead(i, t, t.attempt + 1)
    /\ UNCHANGED << proc, call, args, resolver, runPc, next, results, logged, since, minGap >>

\* Err(_): the attempt exceeded self.timeout
AttemptElapsed(i) ==
    /\ runPc = "dispatch"
    /\ ~PullEnabled
    /\ task[i].pc = "attempting"
    /\ task[i].timer = 0
    /\ LET t == [ task[i] EXCEPT !.last_error = RecordError(@, TimeoutText),
                                 !.kind = "elapsed", !.said = Some(<<"Timeout">>),
                                 !.timeouts = IF proc.timed THEN @ + 1 ELSE @,
                                 !.retryable = @ + 1 ]
       IN  LoopHead(i, t, t.attempt + 1)
    /\ UNCHANGED << proc, call, args, resolver, runPc, next, results, logged, since, minGap >>

\* one tick of time passes: every running timer is lowered
Tick ==
    /\ runPc = "dispatch"
    /\ ~PullEnabled
    /\ InFlight # {}
    /\ task' = [ i \in Tasks |->
                    IF task[i].pc \in InFlightPcs
                    THEN [ task[i] EXCEPT
                             !.timer = IF @ > 0 THEN @ - 1 ELSE 0,
                             !.waited = IF task[i].pc = "rate_sleep"
                                        THEN Min(@ + 1, Delta) ELSE @,
                             !.backed = IF task[i].pc = "backoff"
                                        THEN Min(@ + 1, BackoffBase * task[i].attempt)
                                        ELSE @,
                             !.elapsed = IF proc.timed /\ task[i].pc \in { "attempting", "backoff" }
                                         THEN Min(@ + 1, LatencyCap)
                                         ELSE @ ]
                    ELSE task[i] ]
    /\ since' = Min(since + 1, Delta)
    /\ UNCHANGED << proc, call, args, resolver, runPc, next, collected, results, pb, logged, minGap >>

\* ------------------------------------------------------------- run: unwrap results
\* an unwrap that stops at the first error
RECURSIVE FilterOkUntilErr(_)
FilterOkUntilErr(rs) ==
    IF rs = << >> THEN << >>
    ELSE IF rs[1].ok THEN << rs[1].val >> \o FilterOkUntilErr(Tail(rs))
         ELSE << >>

\* results.into_iter().filter_map(..)
RECURSIVE FilterOk(_)
FilterOk(rs) ==
    IF rs = << >> THEN << >>
    ELSE IF rs[1].ok THEN << rs[1].val >> \o FilterOk(Tail(rs))
         ELSE FilterOk(Tail(rs))

RECURSIVE CountErr(_)
CountErr(rs) ==
    IF rs = << >> THEN 0
    ELSE (IF rs[1].ok THEN 0 ELSE 1) + CountErr(Tail(rs))

\* a stream that ends as soon as its input is exhausted
StreamExhausted == next > Len(args.ips)

\* BufferUnordered ends when the stream is exhausted and nothing is in flight
StreamDone == next > Len(args.ips) /\ InFlight = {}

\* collect() returns; the results are unwrapped
Finish ==
    /\ runPc = "dispatch"
    /\ StreamDone
    /\ runPc' = "done"
    /\ results' = FilterOk(collected)
    /\ logged' = logged + CountErr(collected)
    /\ UNCHANGED << proc, call, args, resolver, next, task, collected, pb, since, minGap >>

Next ==
    \/ \E i \in Tasks : Pull(i)
    \/ \E i \in Tasks : Submit(i)
    \/ \E i \in Tasks : BackoffDone(i)
    \/ \E i \in Tasks : \E reply \in Replies : AttemptOk(i, reply)
    \/ \E i \in Tasks : \E err_str \in ErrorTexts : AttemptErr(i, err_str)
    \/ \E i \in Tasks : AttemptElapsed(i)
    \/ Tick
    \/ Finish

Spec == Init /\ [][Next]_vars

\* one lookup on its own
LookupSpec == LookupInit /\ [][Next]_vars

\* every resolver call returns or hits its timeout, timers fire, the runtime polls
FairSpec == Spec /\ WF_vars(Next)

\* one lookup on its own, under the same conditions
FairLookupSpec == LookupSpec /\ WF_vars(Next)

\* ------------------------------------------------------------- ReverDNSError
\* the variants without a payload, and those that carry one (a text or a foreign error)
UnitErrorKinds == { "Timeout", "RateLimitExceeded", "RetryLimitExceeded" }
PayloadErrorKinds ==
    { "ResolutionFailed", "InvalidIpAddress", "NetworkError", "IoError", "ConfigError",
      "SerializationError", "CsvError", "InvalidResolver", "DoHError", "InvalidFormat",
      "FileNotFound", "PermissionDenied", "InternalError", "Unknown" }

\* the payloads an error is built with
ErrorArgs == { << >>, <<"test">> }

Errors ==
    { [ kind |-> k, arg |-> None ] : k \in UnitErrorKinds }
        \cup { [ kind |-> k, arg |-> a ] : k \in PayloadErrorKinds, a \in ErrorArgs }

ConfigError(msg) == [ kind |-> "ConfigError", arg |-> msg ]

\* a mapping whose wildcard arm is the success code
ExitCodeZeroDefault(e) ==
    CASE e.kind = "InvalidIpAddress"   -> 1
      [] e.kind = "ConfigError"        -> 2
      [] e.kind = "FileNotFound"       -> 3
      [] e.kind = "PermissionDenied"   -> 4
      [] e.kind = "Timeout"            -> 5
      [] e.kind = "NetworkError"       -> 6
      [] e.kind = "RetryLimitExceeded" -> 7
      [] OTHER                         -> 0

\* ReverDNSError::exit_code
ExitCode(e) ==
    CASE e.kind = "InvalidIpAddress"   -> 1
      [] e.kind = "ConfigError"        -> 2
      [] e.kind = "FileNotFound"       -> 3
      [] e.kind = "PermissionDenied"   -> 4
      [] e.kind = "Timeout"            -> 5
      [] e.kind = "NetworkError"       -> 6
      [] e.kind = "RetryLimitExceeded" -> 7
      [] OTHER                         -> 1

\* a test that takes every failure of the network layer for retryable
IsRetryableWithDoH(e) ==
    e.kind \in { "Timeout", "NetworkError", "RateLimitExceeded", "DoHError" }

\* ReverDNSError::is_retryable
IsRetryable(e) == e.kind \in { "Timeout", "NetworkError", "RateLimitExceeded" }

\* ------------------------------------------------------------- Args::validate
\* a validation that does not look at the timeout
ArgsValidateNoTimeout(a) ==
    IF a.ips = << >> /\ IsNone(a.input)
    THEN ErrResult(ConfigError(<<"Either", "provide", "IPs", "or", "--input">>))
    ELSE IF a.concurrency = 0
    THEN ErrResult(ConfigError(<<"Concurrency", "must", "be", "greater", "than", "0">>))
    ELSE IF a.rate_limit = 0
    THEN ErrResult(ConfigError(<<"Rate", "limit", "must", "be", "greater", "than", "0">>))
    ELSE OkResult("unit")

\* Args::validate
ArgsValidate(a) ==
    IF a.ips = << >> /\ IsNone(a.input)
    THEN ErrResult(ConfigError(<<"Either", "provide", "IPs", "or", "--input">>))
    ELSE IF a.concurrency = 0
    THEN ErrResult(ConfigError(<<"Concurrency", "must", "be", "greater", "than", "0">>))
    ELSE IF a.rate_limit = 0
    THEN ErrResult(ConfigError(<<"Rate", "limit", "must", "be", "greater", "than", "0">>))
    ELSE IF a.timeout = 0
    THEN ErrResult(ConfigError(<<"Timeout", "must", "be", "greater", "than", "0">>))
    ELSE OkResult("unit")

\* ------------------------------------------------------------- read_ips_from_file
\* A line of the input file is a text over the fields of an IP string and three
\* more characters: -2 is a blank, -3 is '#', -4 is ','.
IsBlank(c) == c = -2
IsHash(c) == c = -3

\* "8.8.8.8", " 1.1.1.1 ", "", " ", "# x", " # x", "not-an-ip"
FileLines ==
    { <<8, 8, 8, 8>>, << -2, 1, 1, 1, 1, -2 >>, << >>, << -2 >>, << -3, -1 >>,
      << -2, -3, -1 >>, << -1 >> }

RECURSIVE TrimStart(_)
TrimStart(l) == IF Len(l) > 0 /\ IsBlank(l[1]) THEN TrimStart(Tail(l)) ELSE l

RECURSIVE TrimEnd(_)
TrimEnd(l) == IF Len(l) > 0 /\ IsBlank(l[Len(l)]) THEN TrimEnd(SubSeq(l, 1, Len(l) - 1)) ELSE l

\* l.trim()
Trim(l) == TrimEnd(TrimStart(l))

\* trimmed.starts_with('#')
StartsWithHash(l) == Len(l) > 0 /\ IsHash(l[1])

\* a filter that tests the line as read and keeps it as read
RECURSIVE KeptLinesUntrimmed(_)
KeptLinesUntrimmed(lines) ==
    IF lines = << >> THEN << >>
    ELSE LET l == lines[1]
         IN  (IF l # << >> /\ ~StartsWithHash(l) THEN << l >> ELSE << >>)
                 \o KeptLinesUntrimmed(Tail(lines))

\* reader.lines().filter_map(..).collect()
RECURSIVE KeptLines(_)
KeptLines(lines) ==
    IF lines = << >> THEN << >>
    ELSE LET trimmed == Trim(lines[1])
         IN  (IF trimmed # << >> /\ ~StartsWithHash(trimmed) THEN << trimmed >> ELSE << >>)
                 \o KeptLines(Tail(lines))

\* read_ips_from_file(path), file being what the path holds (None: it does not exist)
ReadIpsFromFile(path, file) ==
    IF IsNone(file)
    THEN ErrResult([ kind |-> "FileNotFound", arg |-> path ])
    ELSE OkResult(KeptLines(Unwrap(file)))

\* ------------------------------------------------------------- DnsResolver::with_resolvers
\* "https://cloudflare-dns.com/dns-query"
DefaultProviderUrl == <<"https://", "cloudflare", "-dns.com/dns-query">>

\* the --doh-provider values of a run
DohProviders ==
    { None,
      Some(DefaultProviderUrl),
      Some(<<"https://dns.", "google", "/dns-query">>),
      Some(<<"https://dns.", "quad9", ".net:5053/dns-query">>),
      Some(<<"https://doh.example/dns-query">>),
      Some(<<"https://", "google", ".", "cloudflare", ".example">>),
      Some(<<"https://", "quad9", ".", "google", ".example">>),
      Some(<<"https://", "Cloudflare", "-dns.com/dns-query">>),
      Some(<< >>) }

\* a selection that tests for google first
DohUpstreamGoogleFirst(provider_url) ==
    IF Contains(provider_url, "google")
    THEN [ server |-> NameServer(<<8, 8, 8, 8>>, 443, "Https", Some(<<"dns.google">>)),
           names  |-> <<"google-doh">> ]
    ELSE IF Contains(provider_url, "cloudflare")
    THEN [ server |-> NameServer(<<1, 1, 1, 1>>, 443, "Https", Some(<<"cloudflare-dns.com">>)),
           names  |-> <<"cloudflare-doh">> ]
    ELSE IF Contains(provider_url, "quad9")
    THEN [ server |-> NameServer(<<9, 9, 9, 9>>, 5053, "Https", Some(<<"dns.quad9.net">>)),
           names  |-> <<"quad9-doh">> ]
    ELSE [ server |-> NameServer(<<1, 1, 1, 1>>, 443, "Https", Some(<<"cloudflare-dns.com">>)),
           names  |-> <<"cloudflare-doh(fallback)">> ]

\* the if / else if chain on provider_url
DohUpstream(provider_url) ==
    IF Contains(provider_url, "cloudflare")
    THEN [ server |-> NameServer(<<1, 1, 1, 1>>, 443, "Https", Some(<<"cloudflare-dns.com">>)),
           names  |-> <<"cloudflare-doh">> ]
    ELSE IF Contains(provider_url, "google")
    THEN [ server |-> NameServer(<<8, 8, 8, 8>>, 443, "Https", Some(<<"dns.google">>)),
           names  |-> <<"google-doh">> ]
    ELSE IF Contains(provider_url, "quad9")
    THEN [ server |-> NameServer(<<9, 9, 9, 9>>, 5053, "Https", Some(<<"dns.quad9.net">>)),
           names  |-> <<"quad9-doh">> ]
    ELSE [ server |-> NameServer(<<1, 1, 1, 1>>, 443, "Https", Some(<<"cloudflare-dns.com">>)),
           names  |-> <<"cloudflare-doh(fallback)">> ]

\* names.join(",")
RECURSIVE Join(_)
Join(names) ==
    IF names = << >> THEN << >>
    ELSE IF Len(names) = 1 THEN names[1]
    ELSE names[1] \o << -4 >> \o Join(Tail(names))

\* a loop that leaves out the strings it cannot parse
RECURSIVE CustomUpstreamsSkipping(_, _, _)
CustomUpstreamsSkipping(resolver_ips, servers, names) ==
    IF resolver_ips = << >>
    THEN OkResult([ servers |-> servers, names |-> Join(names) ])
    ELSE LET ip_str == resolver_ips[1]
         IN  IF IpAddrFromStrOk(ip_str)
             THEN CustomUpstreamsSkipping(Tail(resolver_ips),
                                          Append(servers, NameServer(ip_str, 53, "Udp", None)),
                                          Append(names, ip_str))
             ELSE CustomUpstreamsSkipping(Tail(resolver_ips), servers, names)

\* for ip_str in resolver_ips, from the servers and names collected so far
RECURSIVE CustomUpstreams(_, _, _)
CustomUpstreams(resolver_ips, servers, names) ==
    IF resolver_ips = << >>
    THEN OkResult([ servers |-> servers, names |-> Join(names) ])
    ELSE LET ip_str == resolver_ips[1]
         IN  IF IpAddrFromStrOk(ip_str)
             THEN CustomUpstreams(Tail(resolver_ips),
                                  Append(servers, NameServer(ip_str, 53, "Udp", None)),
                                  Append(names, ip_str))
             ELSE ErrResult([ kind |-> "InvalidResolver", arg |-> ip_str ])

\* a construction that validates and registers the resolver list in DoH mode too
WithResolversListFirst(resolver_ips, timeout_secs, retry_count, retry_backoff_ms, use_doh, doh_provider) ==
    LET list == CustomUpstreams(resolver_ips, << >>, << >>)
        d == DohUpstream(UnwrapOr(doh_provider, DefaultProviderUrl))
        up == IF ~list.ok THEN list
              ELSE IF use_doh
              THEN OkResult([ servers |-> Append(list.val.servers, d.server), names |-> d.names ])
              ELSE list
    IN  IF up.ok
        THEN OkResult([ timeout        |-> DurationFromSecs(timeout_secs),
                        retry_count    |-> retry_count,
                        retry_backoff  |-> DurationFromMillis(retry_backoff_ms),
                        resolver_names |-> up.val.names,
                        base           |-> "ResolverConfig::new",
                        servers        |-> up.val.servers ])
        ELSE up

\* DnsResolver::with_resolvers
WithResolvers(resolver_ips, timeout_secs, retry_count, retry_backoff_ms, use_doh, doh_provider) ==
    LET up == IF use_doh
              THEN LET d == DohUpstream(UnwrapOr(doh_provider, DefaultProviderUrl))
                   IN  OkResult([ servers |-> << d.server >>, names |-> d.names ])
              ELSE CustomUpstreams(resolver_ips, << >>, << >>)
    IN  IF up.ok
        THEN OkResult([ timeout        |-> DurationFromSecs(timeout_secs),
                        retry_count    |-> retry_count,
                        retry_backoff  |-> DurationFromMillis(retry_backoff_ms),
                        resolver_names |-> up.val.names,
                        base           |-> "ResolverConfig::new",
                        servers        |-> up.val.servers ])
        ELSE up

\* ------------------------------------------------------------- main and run, up to the dispatch loop
\* no resolver has been constructed
NoResolver ==
    [ timeout |-> 0, retry_count |-> 0, retry_backoff |-> 0, resolver_names |-> << >>,
      base |-> "none", servers |-> << >> ]

\* std::process::exit(e.exit_code()), p being the process so far
Exit(p, e) ==
    /\ runPc' = "exit"
    /\ proc' = [ p EXCEPT !.err = Some(e), !.exit = Some(ExitCode(e)) ]

\* main: args.validate()
Validate ==
    /\ runPc = "main"
    /\ LET r == ArgsValidate(args)
       IN  IF r.ok
           THEN /\ runPc' = "run"
                /\ proc' = [ proc EXCEPT !.validated = TRUE ]
           ELSE Exit(proc, r.err)
    /\ UNCHANGED << call, args, resolver, next, task, collected, results, pb, logged,
                    since, minGap >>

\* an emptiness test that never fires
IsEmptyNever(ips) == FALSE

\* ips.is_empty()
IsEmpty(ips) == ips = << >>

\* run: let mut ips = args.ips.clone(), extended by the input file's; from here on
\* args.ips is run's ips
CollectIps ==
    /\ runPc = "run"
    /\ LET r == IF IsSome(args.input)
                THEN ReadIpsFromFile(Unwrap(args.input), proc.file)
                ELSE OkResult(<< >>)
           p == IF IsSome(args.input) THEN [ proc EXCEPT !.read = Some(r) ] ELSE proc
       IN  IF ~r.ok
           THEN Exit(p, r.err) /\ UNCHANGED args
           ELSE LET ips == args.ips \o r.val
                IN  IF IsEmpty(ips)
                    THEN Exit(p, ConfigError(<<"No", "IPs", "provided">>)) /\ UNCHANGED args
                    ELSE /\ args' = [ args EXCEPT !.ips = ips ]
                         /\ runPc' = "construct"
                         /\ proc' = p
    /\ UNCHANGED << call, resolver, next, task, collected, results, pb, logged, since, minGap >>

\* run: the resolver is created; the dispatch loop's futures are set up
Construct ==
    /\ runPc = "construct"
    /\ LET r == IF args.resolver # << >> \/ args.dns_over_https
                THEN WithResolvers(args.resolver, args.timeout, args.retry_count,
                                   args.retry_backoff, args.dns_over_https, args.doh_provider)
                ELSE OkResult(DnsResolverNew(args.timeout, args.retry_count, args.retry_backoff))
       IN  IF r.ok
           THEN /\ resolver' = r.val
                /\ proc' = [ proc EXCEPT !.built = TRUE ]
                /\ runPc' = "dispatch"
                /\ task' = [ i \in 1..Len(args.ips) |-> QueuedTask ]
                /\ since' = Delta
                /\ minGap' = Delta
           ELSE /\ Exit(proc, r.err)
                /\ UNCHANGED << resolver, task, since, minGap >>
    /\ UNCHANGED << call, args, next, collected, results, pb, logged >>

\* the command line of a run of one lookup with one retry, the other options at rest
BaseArgs ==
    [ ips |-> << <<8, 8, 8, 8>> >>, input |-> None, resolver |-> << >>,
      dns_over_https |-> FALSE, doh_provider |-> None,
      concurrency |-> 1, rate_limit |-> 1, timeout |-> 1, retry_count |-> 1,
      retry_backoff |-> 500 ]

\* the IP arguments of a process: none or one
StartIps == { << >>, << <<8, 8, 8, 8>> >> }

\* the name of the input file
InputPath == <<"ips.txt">>

\* the strings --resolver may be given
ResolverStrings == { <<8, 8, 8, 8>>, << -1 >>, <<256, 1, 1, 1>> }

\* the numeric settings, zero or not
ZeroArgsSet ==
    { [ BaseArgs EXCEPT !.ips = ips, !.input = input, !.timeout = t, !.concurrency = c,
                        !.rate_limit = r ] :
        ips \in StartIps, input \in { None, Some(InputPath) },
        t \in {0, 1}, c \in {0, 1}, r \in {0, 1} }

\* the ip sources, without retries
InputArgsSet ==
    { [ BaseArgs EXCEPT !.ips = ips, !.input = input, !.retry_count = 0 ] :
        ips \in StartIps, input \in { None, Some(InputPath) } }

\* the resolver options
ResolverArgsSet ==
    { [ BaseArgs EXCEPT !.resolver = rs, !.dns_over_https = doh, !.doh_provider = p ] :
        rs \in SeqsUpTo(ResolverStrings, MaxResolvers), doh \in BOOLEAN, p \in DohProviders }

\* what the input path may hold: nothing, or a file of up to MaxLines lines
InputFiles == { None } \cup { Some(f) : f \in SeqsUpTo(FileLines, MaxLines) }

\* the process starts: the command line is parsed, nothing else has happened
StartInit ==
    /\ \/ args \in ZeroArgsSet /\ proc = ProcAtStart(Some(<< <<1, 1, 1, 1>> >>))
       \/ args \in InputArgsSet /\ proc \in { ProcAtStart(f) : f \in InputFiles }
       \/ args \in ResolverArgsSet /\ proc = ProcAtStart(None)
    /\ call = NoCall
    /\ resolver = NoResolver
    /\ runPc = "main"
    /\ next = 1
    /\ task = << >>
    /\ collected = << >>
    /\ results = << >>
    /\ pb = 0
    /\ logged = 0
    /\ since = 0
    /\ minGap = 0

StartNext ==
    \/ Validate
    \/ CollectIps
    \/ Construct
    \/ Next

\* the whole process, from main
StartSpec == StartInit /\ [][StartNext]_vars

\* ------------------------------------------------------------- format_json
\* LookupStatus
LookupStatuses == { "Success", "Failed", "Timeout", "RateLimited" }

\* impl Display for LookupStatus
StatusToString(status) ==
    CASE status = "Success"     -> "success"
      [] status = "Failed"      -> "failed"
      [] status = "Timeout"     -> "timeout"
      [] status = "RateLimited" -> "rate_limited"

\* the LookupResults format_json may be given
SampleResults ==
    { [ ip |-> <<8, 8, 8, 8>>, hostname |-> Some(<<"dns", "google">>), status |-> "Success",
        ttl |-> None, latency_ms |-> 12, resolver |-> <<"google-doh">>, error |-> None ],
      [ ip |-> <<1, 1, 1, 1>>, hostname |-> None, status |-> "Success",
        ttl |-> None, latency_ms |-> 12, resolver |-> <<"google-doh">>, error |-> None ],
      [ ip |-> <<8, 8, 8, 8>>, hostname |-> None, status |-> "Failed",
        ttl |-> None, latency_ms |-> 12, resolver |-> <<"google-doh">>, error |-> Some(<<"NXDOMAIN">>) ],
      [ ip |-> <<1, 1, 1, 1>>, hostname |-> None, status |-> "Timeout",
        ttl |-> None, latency_ms |-> 12, resolver |-> <<"google-doh">>, error |-> Some(TimeoutText) ],
      [ ip |-> <<8, 8, 8, 8>>, hostname |-> None, status |-> "RateLimited",
        ttl |-> None, latency_ms |-> 12, resolver |-> <<"google-doh">>, error |-> None ] }

\* JsonResult of r; the timestamp is left out
JsonResult(r) ==
    [ ip |-> r.ip, hostname |-> r.hostname, status |-> StatusToString(r.status),
      ttl |-> r.ttl, latency_ms |-> r.latency_ms, resolver |-> r.resolver,
      error |-> r.error ]

\* results.iter().filter(|r| r.status == status).count()
CountStatus(rs, status) ==
    Cardinality({ k \in 1..Len(rs) : rs[k].status = status })

\* a summary whose failed counts the status Failed alone
FormatJsonFailedStatus(rs, total_time_ms) ==
    LET successful == CountStatus(rs, "Success")
        failed == CountStatus(rs, "Failed")
    IN  OkResult([ results  |-> [ k \in 1..Len(rs) |-> JsonResult(rs[k]) ],
                   metadata |-> [ total_lookups |-> Len(rs),
                                  successful    |-> successful,
                                  failed        |-> failed,
                                  total_time_ms |-> total_time_ms ] ])

\* format_json(results = rs, total_time_ms): the JsonOutput that is serialized
FormatJson(rs, total_time_ms) ==
    LET successful == CountStatus(rs, "Success")
        failed == Len(rs) - successful
    IN  OkResult([ results  |-> [ k \in 1..Len(rs) |-> JsonResult(rs[k]) ],
                   metadata |-> [ total_lookups |-> Len(rs),
                                  successful    |-> successful,
                                  failed        |-> failed,
                                  total_time_ms |-> total_time_ms ] ])

\* ------------------------------------------------------------- library functions on their own
\* the applications of exit_code, is_retryable and format_json
Calls ==
    { [ fn |-> "exit_code", arg |-> e, ret |-> None ] : e \in Errors }
        \cup { [ fn |-> "is_retryable", arg |-> e, ret |-> None ] : e \in Errors }
        \cup { [ fn |-> "format_json", arg |-> [ results |-> rs, total_time_ms |-> t ],
                 ret |-> None ] : rs \in SeqsUpTo(SampleResults, MaxResults), t \in {0, 12} }

\* one function is about to be applied; no process runs
FnInit ==
    /\ call \in Calls
    /\ args = BaseArgs
    /\ proc = ProcAtStart(None)
    /\ resolver = NoResolver
    /\ runPc = "lib"
    /\ next = 1
    /\ task = << >>
    /\ collected = << >>
    /\ results = << >>
    /\ pb = 0
    /\ logged = 0
    /\ since = 0
    /\ minGap = 0

\* the function returns v
Return(v) ==
    /\ IsNone(call.ret)
    /\ call' = [ call EXCEPT !.ret = Some(v) ]
    /\ UNCHANGED << proc, args, resolver, runPc, next, task, collected, results, pb, logged,
                    since, minGap >>

ApplyExitCode == call.fn = "exit_code" /\ Return(ExitCode(call.arg))

ApplyIsRetryable == call.fn = "is_retryable" /\ Return(IsRetryable(call.arg))

ApplyFormatJson ==
    call.fn = "format_json" /\ Return(FormatJson(call.arg.results, call.arg.total_time_ms))

FnNext ==
    \/ ApplyExitCode
    \/ ApplyIsRetryable
    \/ ApplyFormatJson

FnSpec == FnInit /\ [][FnNext]_vars

\* ------------------------------------------------------------- properties
Done(i) == task[i].pc = "done"
Out(i) == Unwrap(task[i].out)
ValidInput(i) == IpAddrFromStrOk(args.ips[i])
Occurrences(seq, x) == Cardinality({ k \in DOMAIN seq : seq[k] = x })
ResultIps == [ k \in DOMAIN results |-> results[k].ip ]
Failures == { "Failed", "Timeout" }

\* the malformed input strings: "not-an-ip" and "256.1.1.1"
MalformedIps == { << -1 >>, <<256, 1, 1, 1>> }

TypeOK ==
    /\ runPc \in { "main", "run", "construct", "dispatch", "done", "exit", "lib" }
    /\ runPc = "exit" <=> IsSome(proc.exit)
    /\ next \in 1..(Len(args.ips) + 1)
    /\ pb \in 0..Len(args.ips)
    /\ \A i \in Tasks :
          /\ task[i].pc \in { "queued", "done" } \cup InFlightPcs
          /\ task[i].timer >= 0
          /\ Done(i) <=> IsSome(task[i].out)

\* C1: with retry budget N, a lookup of a valid IP whose every attempt ends in a
\* timeout or in an error without a hard-failure marker calls the underlying
\* resolver exactly N + 1 times and returns a LookupResult with status Failed or
\* Timeout; no lookup ever makes more than N + 1 calls.
C1_RetryBudget ==
    \A i \in Tasks :
        ValidInput(i) =>
            /\ task[i].calls <= args.retry_count + 1
            /\ (Done(i) /\ task[i].retryable = task[i].calls) =>
                  /\ task[i].calls = args.retry_count + 1
                  /\ Out(i).ok
                  /\ Out(i).val.status \in Failures

C1_Witness ==
    \E i \in Tasks :
        /\ Done(i) /\ ValidInput(i)
        /\ args.retry_count = MaxRetry
        /\ task[i].retryable = MaxRetry + 1
        /\ task[i].calls = MaxRetry + 1
        /\ Out(i).val.status = "Failed"

\* the latest attempt of lookup i ended in an error carrying a hard-failure marker
HardFailed(i) ==
    /\ task[i].kind = "error"
    /\ IsSome(task[i].last_error)
    /\ ~MarkerFree(Unwrap(task[i].last_error))

\* C2: an attempt that fails with a hard error ends the lookup at once with status
\* Failed and no further attempt, whatever budget remains (a hard failure of the
\* first attempt: exactly 1 attempt).
C2_HardFailureEndsFailed ==
    \A i \in Tasks :
        HardFailed(i) =>
            /\ Done(i)
            /\ task[i].calls = task[i].attempt + 1
            /\ Out(i).ok
            /\ Out(i).val.status = "Failed"

\* the part of C2 that does not speak of the status
C2_HardFailureEndsLookup ==
    \A i \in Tasks :
        HardFailed(i) => Done(i) /\ task[i].calls = task[i].attempt + 1 /\ Out(i).ok

\* C3: every LookupResult lookup produces has
\* status == Success <=> hostname.is_some() <=> error.is_none().
C3_SuccessIffHostnameIffNoError ==
    \A k \in DOMAIN collected :
        collected[k].ok =>
            LET r == collected[k].val
            IN  /\ (r.status = "Success") <=> IsSome(r.hostname)
                /\ IsSome(r.hostname) <=> IsNone(r.error)

\* the part of C3 that does not speak of the hostname
C3_SuccessIffNoError ==
    \A k \in DOMAIN collected :
        collected[k].ok =>
            ((collected[k].val.status = "Success") <=> IsNone(collected[k].val.error))

\* C4: for a target string that does not parse as an IP address, lookup returns
\* the error InvalidIpAddress carrying the string, and makes no call of the
\* underlying resolver and no backoff sleep, for every retry_count.
C4_InvalidIpNoAttempt ==
    \A i \in Tasks :
        args.ips[i] \in MalformedIps =>
            /\ task[i].calls = 0
            /\ task[i].sleeps = 0
            /\ task[i].pc \notin { "attempting", "backoff" }
            /\ Done(i) => Out(i) = ErrResult([ kind |-> "InvalidIpAddress", arg |-> args.ips[i] ])

C4_Witness ==
    \E i \in Tasks :
        /\ Done(i)
        /\ args.ips[i] = <<256, 1, 1, 1>>
        /\ args.retry_count = MaxRetry
        /\ ~Out(i).ok

\* C5: at most C lookups are in flight (between leaving the input queue and
\* delivering their outcome) at any time, hence at most C are attempting.
C5_ConcurrencyBound ==
    /\ Cardinality(InFlight) <= args.concurrency
    /\ Cardinality({ i \in Tasks : task[i].pc = "attempting" }) <= args.concurrency

\* the bound is reached while an input still waits in the queue
C5_Witness ==
    /\ Cardinality(InFlight) = args.concurrency
    /\ next <= Len(args.ips)
    /\ \E i \in Tasks : task[i].pc = "attempting"

\* C6: the dispatch loop eventually completes, and when it has completed every
\* input has produced its outcome: the collected results plus the dropped items
\* are as many as the inputs.
C6_Termination ==
    /\ <>(runPc = "done")
    /\ [](runPc = "done" =>
            /\ \A i \in Tasks : Done(i)
            /\ Len(results) + logged = Len(args.ips))

C6_Witness ==
    /\ runPc = "done"
    /\ Len(args.ips) = MaxIps
    /\ logged > 0
    /\ Len(results) > 0

\* C7: when the run has completed, the ip fields of the results are a
\* permutation of the parseable inputs (duplicates counted); an input that does
\* not parse is dropped and does not abort the run.
C7_ResultsArePermutation ==
    runPc = "done" =>
        /\ \A s \in IpStrings :
              Occurrences(ResultIps, s) =
                  IF IpAddrFromStrOk(s) THEN Occurrences(args.ips, s) ELSE 0
        /\ Len(results) = Cardinality({ i \in Tasks : ValidInput(i) })

\* the first input is dropped, the one after it still yields its result
C7_Witness ==
    /\ runPc = "done"
    /\ Len(args.ips) = 2
    /\ ~ValidInput(1)
    /\ ValidInput(2)
    /\ ResultIps = << args.ips[2] >>

\* C8: for a valid IP lookup returns Ok(LookupResult) whatever its attempts
\* yield, with status Failed or Timeout when it did not succeed; the run goes on
\* and collects one outcome per input.
C8_FailureIsAResult ==
    /\ \A i \in Tasks :
          (ValidInput(i) /\ Done(i)) =>
              /\ Out(i).ok
              /\ Out(i).val.status \in { "Success" } \cup Failures
              /\ task[i].kind # "ok" => Out(i).val.status \in Failures
    /\ runPc = "done" => Len(collected) = Len(args.ips)

\* a lookup fails and the one completing after it succeeds
C8_Witness ==
    /\ runPc = "done"
    /\ Len(results) = 2
    /\ results[1].status \in Failures
    /\ results[2].status = "Success"

\* C9: a lookup that ends without success has status Timeout exactly when its
\* terminating attempt exceeded the per-attempt timeout, and Failed otherwise.
C9_StatusFollowsLastAttempt ==
    \A i \in Tasks :
        (Done(i) /\ ValidInput(i) /\ Out(i).ok /\ Out(i).val.status # "Success") =>
            ((Out(i).val.status = "Timeout") <=> (task[i].kind = "elapsed"))

\* C10 as stated: any two consecutive calls of resolver.lookup are at least
\* Delta apart, for every concurrency bound.
C10_SubmissionsSpaced == minGap >= Delta

\* C10, amended: every lookup is called no earlier than Delta after its own
\* future was started, and with concurrency 1 consecutive calls are at least
\* Delta apart.
C10_PerFutureDelay ==
    /\ \A i \in Tasks : task[i].pc \notin { "queued", "rate_sleep" } => task[i].waited >= Delta
    /\ args.concurrency = 1 => minGap >= Delta

C10_Witness ==
    /\ args.concurrency = 1
    /\ Delta > 1
    /\ \A i \in Tasks : task[i].pc \notin { "queued", "rate_sleep" }
    /\ Len(args.ips) = MaxIps

\* ------------------------------------------------------------- properties of main and run
\* no lookup has been set up, started or finished
NoLookup == task = << >> /\ collected = << >> /\ pb = 0 /\ runPc \notin { "dispatch", "done" }

\* validate and the collection of the ips are behind, both without an error
PreflightPassed ==
    /\ proc.validated
    /\ runPc \notin { "main", "run" }
    /\ args.ips # << >>
    /\ IsSome(proc.read) => proc.read[1].ok

\* resolver construction is behind, with or without an error
ConstructionOver == PreflightPassed /\ runPc # "construct"

MinOf(S) == CHOOSE x \in S : \A y \in S : x <= y

\* C11: in custom-servers mode (no DoH) a resolver list that holds a string that
\* is not an IP address never yields a resolver: construction fails with
\* InvalidResolver carrying that string (the first such string of the list), the
\* process exits with it before the dispatch loop, and no lookup is performed.
C11_InvalidResolverAborts ==
    LET bad == { k \in 1..Len(args.resolver) : args.resolver[k] \in MalformedIps }
    IN  (~args.dns_over_https /\ bad # {}) =>
            /\ ~proc.built
            /\ resolver = NoResolver
            /\ NoLookup
            /\ ConstructionOver =>
                  /\ runPc = "exit"
                  /\ proc.err = Some([ kind |-> "InvalidResolver",
                                       arg |-> args.resolver[MinOf(bad)] ])

C11_Witness ==
    /\ runPc = "exit"
    /\ ~args.dns_over_https
    /\ args.resolver = << <<8, 8, 8, 8>>, <<256, 1, 1, 1>> >>
    /\ proc.err = Some([ kind |-> "InvalidResolver", arg |-> <<256, 1, 1, 1>> ])

\* a line that trimming leaves empty or that starts with '#' once trimmed
Skipped(l) ==
    \/ \A k \in 1..Len(l) : l[k] = -2
    \/ \E k \in 1..Len(l) : l[k] = -3 /\ \A j \in 1..(k - 1) : l[j] = -2

\* C12: when there is no IP argument and either no input file or an input file
\* whose every line is skipped, the process exits with ConfigError (exit code 2);
\* no resolver is ever constructed and no lookup is ever issued.
C12_NoIpsIsConfigError ==
    ( /\ args.ips = << >>
      /\ \/ IsNone(args.input)
         \/ IsSome(proc.file) /\ \A k \in 1..Len(proc.file[1]) : Skipped(proc.file[1][k]) ) =>
        /\ ~proc.built
        /\ resolver = NoResolver
        /\ NoLookup
        /\ runPc \in { "main", "run", "exit" }
        /\ runPc = "exit" => proc.err[1].kind = "ConfigError" /\ proc.exit = Some(2)

C12_Witness ==
    /\ runPc = "exit"
    /\ args.ips = << >>
    /\ IsSome(args.input)
    /\ proc.file = Some(<< << -2, -3, -1 >>, << -2 >> >>)
    /\ proc.read = Some(OkResult(<< >>))
    /\ proc.err[1].kind = "ConfigError"

\* C13: when timeout, concurrency or rate limit is 0, validate returns ConfigError
\* and the process exits (code 2) with the input file unread, no resolver
\* constructed and no lookup started; when all three are positive and there is
\* an IP argument or an input file, validate returns Ok.
C13_ZeroSettingAborts ==
    LET anyZero == args.timeout = 0 \/ args.concurrency = 0 \/ args.rate_limit = 0
    IN  /\ anyZero =>
              /\ ~proc.validated
              /\ IsNone(proc.read)
              /\ ~proc.built
              /\ resolver = NoResolver
              /\ NoLookup
              /\ runPc \in { "main", "exit" }
              /\ runPc = "exit" => proc.err[1].kind = "ConfigError" /\ proc.exit = Some(2)
        /\ (~anyZero /\ (args.ips # << >> \/ IsSome(args.input)) /\ runPc # "main") =>
              proc.validated

C13_Witness ==
    /\ runPc = "exit"
    /\ args.timeout = 0
    /\ args.concurrency > 0
    /\ args.rate_limit > 0
    /\ args.ips # << >>
    /\ IsSome(args.input)
    /\ proc.exit = Some(2)

\* C14: in DoH mode construction never fails, whatever the resolver list holds,
\* and the one upstream follows the first of the tokens cloudflare, google, quad9
\* that the provider string contains: 1.1.1.1:443 "cloudflare-doh",
\* 8.8.8.8:443 "google-doh", 9.9.9.9:5053 "quad9-doh"; no provider string is
\* cloudflare; a string with none of the tokens gets 1.1.1.1:443 and the name
\* "cloudflare-doh(fallback)".
C14_DohProviderSelection ==
    (args.dns_over_https /\ ConstructionOver) =>
        LET has(t) == IsSome(args.doh_provider) /\ Contains(args.doh_provider[1], t)
            token == IF IsNone(args.doh_provider) \/ has("cloudflare") THEN "cloudflare"
                     ELSE IF has("google") THEN "google"
                     ELSE IF has("quad9") THEN "quad9"
                     ELSE "none"
            addr == [ cloudflare |-> <<1, 1, 1, 1>>, google |-> <<8, 8, 8, 8>>,
                      quad9 |-> <<9, 9, 9, 9>>, none |-> <<1, 1, 1, 1>> ]
            port == [ cloudflare |-> 443, google |-> 443, quad9 |-> 5053, none |-> 443 ]
            name == [ cloudflare |-> "cloudflare-doh", google |-> "google-doh",
                      quad9 |-> "quad9-doh", none |-> "cloudflare-doh(fallback)" ]
        IN  /\ proc.built
            /\ runPc # "exit"
            /\ Len(resolver.servers) = 1
            /\ resolver.servers[1].addr = addr[token]
            /\ resolver.servers[1].port = port[token]
            /\ resolver.resolver_names = << name[token] >>

C14_Witness ==
    /\ proc.built
    /\ args.dns_over_https
    /\ args.doh_provider = Some(<<"https://", "google", ".", "cloudflare", ".example">>)
    /\ args.resolver = << << -1 >> >>
    /\ resolver.resolver_names = <<"cloudflare-doh">>

\* the line without the blanks at its two ends: the part l[i..j] that neither
\* starts nor ends with a blank, all of l before i and after j being blanks
Trimmed(l) ==
    CHOOSE t \in { SubSeq(l, i, j) : i \in 1..(Len(l) + 1), j \in 0..Len(l) } :
        /\ t = << >> \/ (t[1] # -2 /\ t[Len(t)] # -2)
        /\ \E i \in 1..(Len(l) + 1), j \in 0..Len(l) :
              /\ t = SubSeq(l, i, j)
              /\ \A k \in 1..Len(l) : (k < i \/ k > j) => l[k] = -2

IsIpLine(t) == t # << >> /\ t[1] # -3

\* C18: read_ips_from_file on an existing file returns the trimmed lines that are
\* non-empty and do not start with '#', in file order and nothing else; on a path
\* that does not exist it returns FileNotFound(path), with which the process
\* exits (code 3), no resolver constructed and no lookup begun.
C18_FileReader ==
    IsSome(proc.read) =>
        IF IsSome(proc.file)
        THEN LET lines == proc.file[1]
                 trimmed == [ k \in 1..Len(lines) |-> Trimmed(lines[k]) ]
             IN  proc.read[1] = OkResult(SelectSeq(trimmed, IsIpLine))
        ELSE /\ proc.read[1] = ErrResult([ kind |-> "FileNotFound", arg |-> args.input[1] ])
             /\ runPc = "exit"
             /\ proc.err = Some([ kind |-> "FileNotFound", arg |-> args.input[1] ])
             /\ proc.exit = Some(3)
             /\ ~proc.built
             /\ resolver = NoResolver
             /\ NoLookup

C18_Witness ==
    /\ proc.file = Some(<< << -2, 1, 1, 1, 1, -2 >>, << -2, -3, -1 >> >>)
    /\ proc.read = Some(OkResult(<< <<1, 1, 1, 1>> >>))
    /\ runPc = "done"
    /\ Len(args.ips) = 2

\* ------------------------------------------------------------- properties of the library functions
Returned(fn) == call.fn = fn /\ IsSome(call.ret)

\* C16: exit_code is 1 for InvalidIpAddress, 2 for ConfigError, 3 for
\* FileNotFound, 4 for PermissionDenied, 5 for Timeout, 6 for NetworkError, 7 for
\* RetryLimitExceeded and 1 for each of the ten other variants; it is never 0.
C16_ExitCodeTable ==
    Returned("exit_code") =>
        LET kind == call.arg.kind
            code == call.ret[1]
        IN  /\ kind = "InvalidIpAddress" => code = 1
            /\ kind = "ConfigError" => code = 2
            /\ kind = "FileNotFound" => code = 3
            /\ kind = "PermissionDenied" => code = 4
            /\ kind = "Timeout" => code = 5
            /\ kind = "NetworkError" => code = 6
            /\ kind = "RetryLimitExceeded" => code = 7
            /\ kind \in { "ResolutionFailed", "IoError", "SerializationError", "CsvError",
                          "InvalidResolver", "RateLimitExceeded", "DoHError",
                          "InvalidFormat", "InternalError", "Unknown" } => code = 1
            /\ code \in 1..7

C16_Witness ==
    /\ Returned("exit_code")
    /\ call.arg = [ kind |-> "InvalidResolver", arg |-> <<"test">> ]
    /\ call.ret = Some(1)

\* C17: format_json succeeds on every list of results, and its metadata has
\* total_lookups = the number of results, successful = the number of results
\* with status Success and successful + failed = the number of results; the
\* output has one entry per result, in the same order.
C17_JsonMetadata ==
    Returned("format_json") =>
        LET rs == call.arg.results
            out == call.ret[1]
            text == [ Success |-> "success", Failed |-> "failed", Timeout |-> "timeout",
                      RateLimited |-> "rate_limited" ]
        IN  /\ out.ok
            /\ out.val.metadata.total_lookups = Len(rs)
            /\ out.val.metadata.successful =
                  Cardinality({ k \in 1..Len(rs) : rs[k].status = "Success" })
            /\ out.val.metadata.successful + out.val.metadata.failed = Len(rs)
            /\ Len(out.val.results) = Len(rs)
            /\ \A k \in 1..Len(rs) :
                  /\ out.val.results[k].ip = rs[k].ip
                  /\ out.val.results[k].hostname = rs[k].hostname
                  /\ out.val.results[k].error = rs[k].error
                  /\ out.val.results[k].status = text[rs[k].status]

C17_Witness ==
    /\ Returned("format_json")
    /\ Len(call.arg.results) = 3
    /\ call.arg.results[1].status = "RateLimited"
    /\ call.arg.results[2].status = "Success"
    /\ call.arg.results[3].status = "Timeout"
    /\ call.ret[1].val.metadata.failed = 2

\* C19: is_retryable is true for Timeout, NetworkError and RateLimitExceeded and
\* false for each of the fourteen other variants.
C19_RetryableVariants ==
    Returned("is_retryable") =>
        LET kind == call.arg.kind
        IN  /\ kind \in { "Timeout", "NetworkError", "RateLimitExceeded" } => call.ret[1] = TRUE
            /\ kind \in { "InvalidIpAddress", "InvalidResolver", "ConfigError",
                          "ResolutionFailed", "IoError", "SerializationError", "CsvError",
                          "RetryLimitExceeded", "DoHError", "InvalidFormat", "FileNotFound",
                          "PermissionDenied", "InternalError", "Unknown" } =>
                  call.ret[1] = FALSE

C19_Witness ==
    /\ Returned("is_retryable")
    /\ call.arg.kind = "RateLimitExceeded"
    /\ call.ret = Some(TRUE)

\* ------------------------------------------------------------- properties of the retry loop
\* 1 + 2 + ... + n
SumTo(n) == (n * (n + 1)) \div 2

\* C15: attempt 0 is issued with no sleep before it; attempt n > 0 is issued
\* after exactly one more backoff sleep, of backoff_base * n, which starts when
\* attempt n - 1 has ended and is over before attempt n is issued; after k
\* attempts the lookup has slept k - 1 times, backoff_base * (1 + .. + (k - 1))
\* in total.
C15_LinearBackoff ==
    \A i \in Tasks :
        LET t == task[i]
        IN  /\ (t.pc = "attempting" \/ Done(i)) /\ t.calls >= 1 =>
                  /\ t.sleeps = t.calls - 1
                  /\ t.slept = BackoffBase * SumTo(t.calls - 1)
                  /\ t.sleeps > 0 => t.backed = BackoffBase * t.sleeps
            /\ t.pc = "attempting" => t.sleeps = t.attempt
            /\ t.pc = "backoff" =>
                  /\ t.attempt > 0
                  /\ t.calls = t.attempt
                  /\ t.kind \in { "error", "elapsed" }
                  /\ t.sleeps = t.attempt
                  /\ t.slept = BackoffBase * SumTo(t.attempt)
                  /\ t.timer + t.backed = BackoffBase * t.attempt

C15_Witness ==
    \E i \in Tasks :
        /\ Done(i)
        /\ BackoffBase > 0
        /\ task[i].calls = 4
        /\ task[i].sleeps = 3
        /\ task[i].slept = 6 * BackoffBase

\* the steps of the retry loop of one lookup
RetryLoopStep(i) ==
    /\ task'[i].calls \in { task[i].calls, task[i].calls + 1 }
    /\ task'[i].calls = task[i].calls + 1 =>
          /\ task'[i].pc = "attempting"
          /\ task'[i].attempt = task[i].calls
          /\ task[i].pc \in { "rate_sleep", "backoff" }
    /\ Done(i) => task'[i] = task[i]

\* C20: a lookup is in Attempting(n) only for n in 0..=retry_count; each attempt
\* it issues has the index that follows the previous one's, from 0; it ends
\* after at most retry_count + 1 attempts, every resolver call returning or
\* timing out; once it has ended it issues no attempt.
C20_RetryStateMachine ==
    /\ [](\A i \in Tasks :
             /\ task[i].pc \in { "attempting", "backoff" } =>
                   task[i].attempt \in 0..args.retry_count
             /\ task[i].pc = "attempting" => task[i].calls = task[i].attempt + 1
             /\ task[i].calls <= args.retry_count + 1
             /\ Done(i) /\ ValidInput(i) => Out(i).ok /\ Out(i).val.status \in LookupStatuses)
    /\ [][\A i \in Tasks : RetryLoopStep(i)]_vars
    /\ <>(\A i \in Tasks : Done(i))

C20_Witness ==
    \E i \in Tasks :
        /\ Done(i)
        /\ args.retry_count = 2
        /\ task[i].calls = 3
        /\ task[i].kind = "ok"

\* ------------------------------------------------------------- properties of the lookup's result
\* C21: a lookup whose attempt succeeds ends with that attempt, whatever its
\* index: the result has status Success and error None although earlier
\* attempts recorded errors, and no attempt or backoff sleep follows.
C21_SuccessEndsLookup ==
    /\ [](\A i \in Tasks :
             (Done(i) /\ task[i].kind = "ok") =>
                 /\ Out(i).ok
                 /\ Out(i).val.status = "Success"
                 /\ Out(i).val.error = None
                 /\ task[i].calls = task[i].attempt + 1
                 /\ task[i].sleeps = task[i].attempt)
    /\ [][\A i \in Tasks :
             (task[i].pc = "attempting" /\ task'[i].kind = "ok" /\ task'[i] # task[i]) =>
                 /\ Done(i)'
                 /\ task'[i].calls = task[i].calls
                 /\ task'[i].sleeps = task[i].sleeps]_vars

C21_Witness ==
    \E i \in Tasks :
        /\ Done(i)
        /\ task[i].kind = "ok"
        /\ task[i].attempt = 2
        /\ IsSome(task[i].last_error)
        /\ Out(i).val.error = None

\* C22: the error of a result without success is the description of the last
\* attempt made: the resolver's error text when that attempt failed, "Timeout"
\* when it timed out.
C22_ErrorIsLastAttempts ==
    \A i \in Tasks :
        (Done(i) /\ Out(i).ok /\ Out(i).val.status # "Success") =>
            /\ IsSome(task[i].said)
            /\ Out(i).val.error = task[i].said
            /\ task[i].kind = "elapsed" => Out(i).val.error = Some(<<"Timeout">>)
            /\ task[i].kind = "error" => Out(i).val.error[1] \in ErrorTexts

C22_Witness ==
    \E i \in Tasks :
        /\ Done(i)
        /\ task[i].calls = 3
        /\ task[i].retryable = 2
        /\ Out(i).val.error = Some(<<"NXDOMAIN">>)

\* C27: a result without success never carries the fallback text "Unknown
\* error": at least one attempt was made (also with retry_count = 0) and the
\* error is the one an attempt recorded.
C27_UnknownErrorUnreachable ==
    \A i \in Tasks :
        (Done(i) /\ Out(i).ok /\ Out(i).val.status # "Success") =>
            /\ task[i].calls >= 1
            /\ task[i].kind \in { "error", "elapsed" }
            /\ IsSome(task[i].last_error)
            /\ Out(i).val.error # Some(<<"Unknown", "error">>)
            /\ Out(i).val.error # None

C27_Witness ==
    \E i \in Tasks :
        /\ Done(i)
        /\ args.retry_count = 0
        /\ task[i].calls = 1
        /\ Out(i).ok
        /\ Out(i).val.status = "Failed"

\* C28: every result that lookup returns and every result that run collects or
\* keeps has status Success, Failed or Timeout, never RateLimited.
C28_NeverRateLimited ==
    /\ \A i \in Tasks : (Done(i) /\ Out(i).ok) => Out(i).val.status \in { "Success", "Failed", "Timeout" }
    /\ \A k \in 1..Len(collected) :
          collected[k].ok => collected[k].val.status \in { "Success", "Failed", "Timeout" }
    /\ \A k \in 1..Len(results) : results[k].status \in { "Success", "Failed", "Timeout" }

C28_Witness ==
    /\ runPc = "done"
    /\ Len(results) = 2
    /\ results[1].status = "Timeout"
    /\ results[2].status = "Success"

\* C24: the latency of a result runs from the call of lookup to its end: after
\* k attempts it is at least backoff_base * (1 + .. + (k - 1)), and when all k
\* attempts timed out it is at least k timeouts more than that.
C24_LatencyIsWholeLookup ==
    \A i \in Tasks :
        (Done(i) /\ Out(i).ok) =>
            LET k == task[i].calls
                backoffs == BackoffBase * SumTo(k - 1)
                timeouts == k * DurationFromSecs(args.timeout)
            IN  /\ Out(i).val.latency_ms >= DurationAsMillis(backoffs)
                /\ (Out(i).val.status # "Success" /\ task[i].timeouts = k) =>
                      Out(i).val.latency_ms >= DurationAsMillis(backoffs + timeouts)

C24_Witness ==
    \E i \in Tasks :
        /\ Done(i)
        /\ BackoffBase > 0
        /\ task[i].calls = 3
        /\ task[i].kind = "ok"
        /\ Out(i).val.latency_ms = DurationAsMillis(3 * BackoffBase)

\* ------------------------------------------------------------- properties of the rate limiter
\* the rate limit sleeps the future of ip i has behind it
RateWaits(i) == IF task[i].pc \in { "queued", "rate_sleep" } THEN 0 ELSE 1

\* C23 as stated: every call of the underlying resolver, retries included, has
\* a rate limit sleep of its own before it.
C23_EveryAttemptRateLimited == \A i \in Tasks : task[i].calls <= RateWaits(i)

\* C23, amended: the rate limit sleep comes once per lookup, before attempt 0:
\* a lookup has slept Delta when its first attempt is issued, never sleeps for
\* the rate limit again, and its retries follow the backoff sleep alone.
C23_OneRateWaitPerLookup ==
    /\ [](\A i \in Tasks :
             /\ task[i].calls >= 1 => task[i].waited >= Delta
             /\ task[i].pc = "rate_sleep" =>
                   task[i].calls = 0 /\ task[i].sleeps = 0 /\ task[i].attempt = 0)
    /\ [][\A i \in Tasks :
             /\ task'[i].pc = "rate_sleep" => task[i].pc \in { "queued", "rate_sleep" }
             /\ task[i].calls >= 1 => task'[i].waited = task[i].waited
             /\ (task'[i].calls > task[i].calls /\ task[i].calls >= 1) =>
                   task[i].pc = "backoff"]_vars

C23_Witness ==
    \E i \in Tasks :
        /\ Done(i)
        /\ Delta > 0
        /\ BackoffBase = 0
        /\ task[i].calls = 3
        /\ task[i].waited = Delta
        /\ task[i].elapsed = 0

\* ------------------------------------------------------------- properties of the dispatch loop
\* C25: with concurrency bound 1 the futures run one after another in input
\* order: at most one is in flight, none starts before the one before it has
\* returned, consecutive calls of resolver.lookup are at least Delta apart and
\* the k-th collected item is what the lookup of the k-th ip returned.
C25_SequentialInOrder ==
    args.concurrency = 1 =>
        /\ Cardinality(InFlight) <= 1
        /\ \A i \in Tasks : task[i].pc # "queued" => \A j \in 1..(i - 1) : Done(j)
        /\ minGap >= Delta
        /\ Len(collected) = Cardinality({ i \in Tasks : Done(i) })
        /\ \A k \in 1..Len(collected) : Done(k) /\ collected[k] = Out(k)

C25_Witness ==
    /\ args.concurrency = 1
    /\ Delta > 1
    /\ runPc = "done"
    /\ Len(collected) = 2
    /\ ~collected[1].ok
    /\ collected[2].ok
    /\ collected[2].val.status = "Timeout"

\* C29: the progress counter is the number of lookups that have returned, with
\* a result or with an error: it moves by one when a lookup returns and at no
\* other time, never exceeds the number of ips, and equals it when the dispatch
\* loop is over, whatever the number of results kept.
C29_ProgressCountsReturns ==
    /\ [](/\ pb = Cardinality({ i \in Tasks : Done(i) })
          /\ pb <= Len(args.ips)
          /\ runPc = "done" => (pb = Len(args.ips) /\ Len(results) <= pb))
    /\ [][/\ pb' \in { pb, pb + 1 }
          /\ pb' = pb + 1 <=> \E i \in Tasks : ~Done(i) /\ Done(i)']_vars

C29_Witness ==
    /\ runPc = "done"
    /\ args.concurrency = 2
    /\ pb = 2
    /\ Len(results) = 1
    /\ ~collected[2].ok

\* C26: with DoH on, the resolver list plays no part: construction succeeds
\* whatever strings the list holds, none of them becomes an upstream, and the
\* handle has exactly one upstream, the DoH server.
C26_DohIgnoresResolverList ==
    (args.dns_over_https /\ ConstructionOver) =>
        /\ proc.built
        /\ IsNone(proc.err)
        /\ Len(resolver.servers) = 1
        /\ resolver.servers[1].protocol = "Https"
        /\ resolver.servers[1].addr \in { <<1, 1, 1, 1>>, <<8, 8, 8, 8>>, <<9, 9, 9, 9>> }
        /\ resolver.servers[1].port # 53
        /\ \A k \in 1..Len(resolver.resolver_names) :
              resolver.resolver_names[k] \in
                  { "cloudflare-doh", "google-doh", "quad9-doh", "cloudflare-doh(fallback)" }

C26_Witness ==
    /\ proc.built
    /\ args.dns_over_https
    /\ args.resolver = << <<256, 1, 1, 1>>, <<8, 8, 8, 8>> >>
    /\ args.doh_provider = Some(<<"https://dns.", "quad9", ".net:5053/dns-query">>)
    /\ Len(resolver.servers) = 1
    /\ runPc = "done"
====
